---- MODULE Spec2Model ----
(***************************************************************************)
(* weather-cli (package wthr): the forecast request composer, the forecast *)
(* mode resolution of the `weather` command, the time-series normalizer    *)
(* and the response parser.                                                *)
(*                                                                         *)
(* Encoding of Python values:                                              *)
(*   Optional[T]  : None is {} and a value v is {v}                        *)
(*   dict         : a function whose DOMAIN is the set of keys             *)
(*   list         : a sequence (1-based here, 0-based in Python)           *)
(*   JSON datum   : [of, at, ok] -- the value the provider put in column   *)
(*                  `of` at (1-based) index `at`; ok says whether pydantic *)
(*                  accepts it for the declared type of the field          *)
(***************************************************************************)
EXTENDS Integers, Sequences, FiniteSets, TLC

VARIABLES
    pc,             \* position of the routine under execution
    d, days, h, hours, mixed, type,   \* locals of the `weather` command
    call,           \* arguments of the running get_weather call
    params,         \* the query parameters get_weather built (None before)
    data,           \* argument of the running _normalize_timeseries call
    rows,           \* its return value (None before it returned)
    parse_args,     \* arguments of the running _parse_weather_response call
    result,         \* the Weather it returned (None before, or when it raised)
    raised,         \* the exception that ended the routine, "" when none
    argv,           \* the command line as given to the `weather` command
    location,       \* the place name given to the `weather` command
    location_,      \* the Location get_location returned (None before)
    requests,       \* the calls of APIClient._get so far, in order
    cache_file,     \* the location cache file: None when absent, else its dict
    cache_empty,    \* location_cache_storage._empty_data_example
    output,         \* what the command printed, in order
    geocoded,       \* the answer of the geocoder to get_location (None before)
    config_file,    \* the config file: None when absent, else its dict
    config_empty,   \* config_storage._empty_data_example
    op,             \* the storage operation last run, with its return value
    lookups         \* the get_location calls that returned, in order

\* the state outside the locals of the routines
storage_vars == <<config_file, config_empty, op, lookups>>
env_vars == <<location, location_, cache_file, cache_empty, output, geocoded,
              storage_vars>>

vars == <<pc, d, days, h, hours, mixed, type, call, params, data, rows,
          parse_args, result, raised, argv, requests, env_vars>>

----------------------------------------------------------------------------
\* Bounds of the model

\* explicit --days values range over -MaxBelow .. MaxDaysArg
MaxDaysArg == 18
\* explicit --hours values range over -MaxBelow .. MaxHoursArg
MaxHoursArg == 170
MaxBelow == 2
\* longest column of a daily / hourly block
MaxLen == 3
MaxCalls == 3

----------------------------------------------------------------------------
\* Python helpers

None == {}
Some(x) == {x}
The(o) == CHOOSE x \in o : TRUE

Min(a, b) == IF a < b THEN a ELSE b
Max(a, b) == IF a > b THEN a ELSE b

\* truth value of an Optional[int]: None and 0 are falsy
Truthy(o) == o # None /\ o # Some(0)

\* the dict with no key
EmptyDict == [k \in {} |-> None]

\* a dict literal followed by assignments of further keys
Update(dict, more) == more @@ dict

----------------------------------------------------------------------------
\* models/forecast.py

CURRENT == "current"
DAILY == "daily"
HOURLY == "hourly"
MIXED == "mixed"
ForecastType == {CURRENT, DAILY, HOURLY, MIXED}

\* Field(alias=...) declarations; required = the field has no default
FieldInfo(name, alias, required) ==
    [name |-> name, alias |-> alias, required |-> required]

ForecastModel ==
    << FieldInfo("time", None, TRUE),
       FieldInfo("weather_code", Some("weather_code"), TRUE) >>

CurrentForecast ==
    ForecastModel \o
    << FieldInfo("temperature", Some("temperature_2m"), TRUE),
       FieldInfo("apparent_temperature", Some("apparent_temperature"), FALSE),
       FieldInfo("wind_speed", Some("wind_speed_10m"), TRUE),
       FieldInfo("wind_direction", Some("wind_direction_10m"), FALSE),
       FieldInfo("relative_humidity", Some("relative_humidity_2m"), TRUE),
       FieldInfo("is_day", Some("is_day"), TRUE) >>

DailyForecast ==
    ForecastModel \o
    << FieldInfo("temperature_max", Some("temperature_2m_max"), TRUE),
       FieldInfo("temperature_min", Some("temperature_2m_min"), TRUE),
       FieldInfo("apparent_temperature_max", Some("apparent_temperature_max"), FALSE),
       FieldInfo("apparent_temperature_min", Some("apparent_temperature_min"), FALSE),
       FieldInfo("wind_speed_max", Some("wind_speed_10m_max"), FALSE),
       FieldInfo("precipitation_probability_max",
                 Some("precipitation_probability_max"), TRUE),
       FieldInfo("precipitation_sum", Some("precipitation_sum"), FALSE),
       FieldInfo("sunrise", Some("sunrise"), TRUE),
       FieldInfo("sunset", Some("sunset"), TRUE) >>

HourlyForecast ==
    ForecastModel \o
    << FieldInfo("temperature", Some("temperature_2m"), TRUE),
       FieldInfo("apparent_temperature", Some("apparent_temperature"), FALSE),
       FieldInfo("wind_speed", Some("wind_speed_10m"), FALSE),
       FieldInfo("relative_humidity", Some("relative_humidity_2m"), FALSE),
       FieldInfo("precipitation_probability",
                 Some("precipitation_probability"), FALSE),
       FieldInfo("cloud_cover", Some("cloud_cover"), FALSE) >>

\* faulty variant of get_request_fields: a field without alias goes by its name
RECURSIVE RequestFieldsOrNames(_)
RequestFieldsOrNames(cls) ==
    IF cls = << >> THEN << >>
    ELSE (IF Head(cls).alias # None
          THEN << The(Head(cls).alias) >> ELSE << Head(cls).name >>)
         \o RequestFieldsOrNames(Tail(cls))

\* [field.alias for field in cls.model_fields.values() if field.alias]
RECURSIVE get_request_fields(_)
get_request_fields(cls) ==
    IF cls = << >> THEN << >>
    ELSE (IF Head(cls).alias # None
          THEN << The(Head(cls).alias) >> ELSE << >>)
         \o get_request_fields(Tail(cls))

----------------------------------------------------------------------------
\* api/weather_client.py: get_weather, the request composer

\* Location objects; latitude and longitude in hundredths of a degree
Locations ==
    { [display_name |-> "Moscow", latitude |-> 5575, longitude |-> 3762],
      [display_name |-> "Lima", latitude |-> 0 - 1205, longitude |-> 0 - 7704] }

\* the block keys and the count keys of the parameter set
BlockKeys == {"current", "daily", "hourly"}
CountKeys == {"forecast_days", "forecast_hours"}

\* faulty variant of ClampDays: the floor is forgotten
ClampDaysNoFloor(n) == Min(n, 16)

\* min(max(days, 1), 16) and min(max(hours, 1), 168)
ClampDays(n) == Min(Max(n, 1), 16)
ClampHours(n) == Min(Max(n, 1), 168)

\* faulty variant of CurrentPart: the current block is requested for every kind
CurrentPartAlways(forecast_type) ==
    [current |-> get_request_fields(CurrentForecast)]

\* the keys one `if forecast_type in (...)` statement adds to params
CurrentPart(forecast_type) ==
    IF forecast_type \in {CURRENT, MIXED}
    THEN [current |-> get_request_fields(CurrentForecast)]
    ELSE EmptyDict

\* faulty variant of DailyPart: the day count is not sent
DailyPartNoCount(forecast_type, days_) ==
    IF forecast_type \in {DAILY, MIXED}
    THEN [daily |-> get_request_fields(DailyForecast)]
    ELSE EmptyDict

DailyPart(forecast_type, days_) ==
    IF forecast_type \in {DAILY, MIXED}
    THEN [daily |-> get_request_fields(DailyForecast),
          forecast_days |-> ClampDays(The(days_))]
    ELSE EmptyDict

HourlyPart(forecast_type, hours_) ==
    IF forecast_type \in {HOURLY, MIXED}
    THEN [hourly |-> get_request_fields(HourlyForecast),
          forecast_hours |-> ClampHours(The(hours_))]
    ELSE EmptyDict

\* max(days, 1) / max(hours, 1) on None raises TypeError
ComposeRaises(c) ==
    \/ c.forecast_type \in {DAILY, MIXED} /\ c.days = None
    \/ c.forecast_type \in {HOURLY, MIXED} /\ c.hours = None

\* the params dict at the call of self._get
ComposeParams(c) ==
    Update(Update(Update(
        [latitude |-> c.location.latitude,
         longitude |-> c.location.longitude,
         timezone |-> c.timezone,
         temperature_unit |-> c.temperature_unit,
         wind_speed_unit |-> c.wind_speed_unit],
        CurrentPart(c.forecast_type)),
        DailyPart(c.forecast_type, c.days)),
        HourlyPart(c.forecast_type, c.hours))

\* the count arguments: None (as the weather command passes for a kind that
\* does not need the count) or an integer
DaysArgs == {None} \cup { Some(n) : n \in (0 - MaxBelow) .. MaxDaysArg }
HoursArgs == {None} \cup { Some(n) : n \in (0 - MaxBelow) .. MaxHoursArg }

GetWeatherCall(loc, forecast_type, days_, hours_) ==
    [location |-> loc, forecast_type |-> forecast_type,
     days |-> days_, hours |-> hours_,
     timezone |-> "auto", temperature_unit |-> None, wind_speed_unit |-> None]

NoCall == [forecast_type |-> "none"]

\* the two services and a call of self._get(url, params)
GeocoderUrl == "https://nominatim.openstreetmap.org/search"
WeatherUrl == "https://api.open-meteo.com/v1/forecast"
Request(url, query) == [url |-> url, params |-> query]

\* what _get raises instead of returning: raise_for_status() on a status that
\* is not 2xx, or the session on a network failure
TransportErrors == {"HTTPError", "ConnectionError"}

\* get_weather, lines 92-111: build the parameter set and issue the request
GetWeatherCompose ==
    /\ pc = "get_weather"
    /\ IF ComposeRaises(call)
       THEN /\ raised' = "TypeError"
            /\ pc' = "raised"
            /\ UNCHANGED params
            /\ UNCHANGED requests
       ELSE /\ params' = Some(ComposeParams(call))
            /\ requests' = Append(requests, Request(WeatherUrl, ComposeParams(call)))
            /\ pc' = "get_weather_get"
            /\ UNCHANGED raised
    /\ UNCHANGED <<d, days, h, hours, mixed, type, argv, call, data, rows,
                   parse_args, result, env_vars>>

----------------------------------------------------------------------------
\* main.py: the forecast mode resolution of the `weather` command

\* the values typer hands to the command for --days and --hours
DaysOptions == DaysArgs
HoursOptions == HoursArgs

\* faulty variant of ResolveMode: the counts are defaulted before the chain
ResolveModeDefaulting(d_, days_, h_, hours_, mixed_) ==
    LET dd == IF ~Truthy(days_) THEN Some(4) ELSE days_
        hh == IF ~Truthy(hours_) THEN Some(12) ELSE hours_
    IN IF ~(mixed_ \/ d_ \/ Truthy(days_) \/ h_ \/ Truthy(hours_))
       THEN [type |-> Some(CURRENT), days |-> dd, hours |-> hh]
       ELSE IF mixed_ \/ ((d_ \/ Truthy(days_)) /\ (h_ \/ Truthy(hours_)))
       THEN [type |-> Some(MIXED), days |-> dd, hours |-> hh]
       ELSE IF d_ \/ Truthy(days_)
       THEN [type |-> Some(DAILY), days |-> dd, hours |-> hours_]
       ELSE [type |-> Some(HOURLY), days |-> days_, hours |-> hh]

\* faulty variant of ResolveMode: the defaults 4 and 12 are not filled in
ResolveModeNoDefaults(d_, days_, h_, hours_, mixed_) ==
    IF ~(mixed_ \/ d_ \/ Truthy(days_) \/ h_ \/ Truthy(hours_))
    THEN [type |-> Some(CURRENT), days |-> days_, hours |-> hours_]
    ELSE IF mixed_ \/ ((d_ \/ Truthy(days_)) /\ (h_ \/ Truthy(hours_)))
    THEN [type |-> Some(MIXED), days |-> days_, hours |-> hours_]
    ELSE IF d_ \/ Truthy(days_)
    THEN [type |-> Some(DAILY), days |-> days_, hours |-> hours_]
    ELSE [type |-> Some(HOURLY), days |-> days_, hours |-> hours_]

\* lines 103-118: the if / elif chain, as the values of (type, days, hours)
\* after it; `not days` is true of None and of 0
ResolveMode(d_, days_, h_, hours_, mixed_) ==
    IF ~(mixed_ \/ d_ \/ Truthy(days_) \/ h_ \/ Truthy(hours_))
    THEN [type |-> Some(CURRENT), days |-> days_, hours |-> hours_]
    ELSE IF mixed_ \/ ((d_ \/ Truthy(days_)) /\ (h_ \/ Truthy(hours_)))
    THEN [type |-> Some(MIXED),
          days |-> IF ~Truthy(days_) THEN Some(4) ELSE days_,
          hours |-> IF ~Truthy(hours_) THEN Some(12) ELSE hours_]
    ELSE IF d_ \/ Truthy(days_)
    THEN [type |-> Some(DAILY),
          days |-> IF ~Truthy(days_) THEN Some(4) ELSE days_,
          hours |-> hours_]
    ELSE IF h_ \/ Truthy(hours_)
    THEN [type |-> Some(HOURLY),
          days |-> days_,
          hours |-> IF ~Truthy(hours_) THEN Some(12) ELSE hours_]
    ELSE [type |-> None, days |-> days_, hours |-> hours_]

WeatherResolveMode ==
    /\ pc = "weather"
    /\ LET r == ResolveMode(d, days, h, hours, mixed)
       IN /\ type' = r.type
          /\ days' = r.days
          /\ hours' = r.hours
    /\ pc' = "get_location"
    /\ UNCHANGED <<d, h, mixed, argv, call, params, data, rows, parse_args,
                   result, raised, requests, env_vars>>

----------------------------------------------------------------------------
\* api/weather_client.py: _normalize_timeseries

Datum(of, at) == [of |-> of, at |-> at, ok |-> TRUE]
\* a JSON array of n values, and a JSON value that is not an array
Column(k, n) == [isList |-> TRUE, items |-> [i \in 1 .. n |-> Datum(k, i)]]
Scalar == [isList |-> FALSE, items |-> << >>]

\* faulty variant of NormalizeRaises: data["time"] is read without the guard
NormalizeRaisesOnMissing(block) ==
    \/ "time" \notin DOMAIN block
    \/ ~block["time"].isList

\* len(data["time"]) of a value that has no length raises TypeError
NormalizeRaises(block) ==
    /\ block # EmptyDict
    /\ "time" \in DOMAIN block
    /\ ~block["time"].isList

\* faulty variant of NormalizeItem: values[0] is taken for every index
NormalizeItemFirst(block, i) ==
    LET keys == { k \in DOMAIN block :
                    block[k].isList /\ Len(block[k].items) >= i }
    IN [k \in keys |-> block[k].items[1]]

\* item of index i: the keys whose value is a list longer than i
NormalizeItem(block, i) ==
    LET keys == { k \in DOMAIN block :
                    block[k].isList /\ Len(block[k].items) >= i }
    IN [k \in keys |-> block[k].items[i]]

normalize_timeseries(block) ==
    IF block = EmptyDict \/ "time" \notin DOMAIN block
    THEN << >>
    ELSE [i \in 1 .. Len(block["time"].items) |-> NormalizeItem(block, i)]

\* the blocks handed to the normalizer: any subset of the keys, each a list
\* of 0 .. MaxLen values or a value that is not a list
NormalizeKeys == {"time", "weather_code", "x"}
Columns(k) == { Column(k, n) : n \in 0 .. MaxLen } \cup { Scalar }
ColumnChoices ==
    { f \in [NormalizeKeys -> UNION { Columns(k) : k \in NormalizeKeys }] :
        \A k \in NormalizeKeys : f[k] \in Columns(k) }
Blocks ==
    { [k \in keys |-> f[k]] : keys \in SUBSET NormalizeKeys, f \in ColumnChoices }

NormalizeTimeseries ==
    /\ pc = "normalize_timeseries"
    /\ IF NormalizeRaises(data)
       THEN /\ raised' = "TypeError"
            /\ pc' = "raised"
            /\ UNCHANGED rows
       ELSE /\ rows' = Some(normalize_timeseries(data))
            /\ pc' = "returned"
            /\ UNCHANGED raised
    /\ UNCHANGED <<d, days, h, hours, mixed, type, argv, call, params, data,
                   parse_args, result, requests, env_vars>>

----------------------------------------------------------------------------
\* models/weather.py and pydantic's validation of the forecast models

\* faulty variant of FieldKey: every field is read by its internal name
FieldKeyByName(f) == f.name

\* the key model_validate reads a field from: its alias, else its name
FieldKey(f) == IF f.alias # None THEN The(f.alias) ELSE f.name
FieldKeys(cls) == { FieldKey(cls[i]) : i \in 1 .. Len(cls) }
FieldNames(cls) == { cls[i].name : i \in 1 .. Len(cls) }
FieldNamed(cls, name) == cls[CHOOSE i \in 1 .. Len(cls) : cls[i].name = name]

\* faulty variant of Validates: an absent required field is not an error
ValidatesPresentOnly(cls, item) ==
    \A i \in 1 .. Len(cls) :
        FieldKey(cls[i]) \in DOMAIN item => item[FieldKey(cls[i])].ok

\* cls.model_validate(item) succeeds: every key present holds a value of the
\* declared type, and every required field's key is present
Validates(cls, item) ==
    \A i \in 1 .. Len(cls) :
        IF FieldKey(cls[i]) \in DOMAIN item
        THEN item[FieldKey(cls[i])].ok
        ELSE ~cls[i].required

\* the model object: every field, None where the key is absent; keys of the
\* item that belong to no field are ignored
model_validate(cls, item) ==
    [name \in FieldNames(cls) |->
        IF FieldKey(FieldNamed(cls, name)) \in DOMAIN item
        THEN Some(item[FieldKey(FieldNamed(cls, name))])
        ELSE None]

\* Weather(**kwargs): declared fields take the keyword of their name or
\* their default; other keywords are ignored (pydantic's extra = "ignore")
Weather(kwargs) ==
    [location_name |-> IF "location_name" \in DOMAIN kwargs
                       THEN kwargs["location_name"] ELSE "Unknown",
     current |-> None,
     daily |-> None,
     hourly |-> None]

----------------------------------------------------------------------------
\* api/weather_client.py: _parse_weather_response

\* faulty variant of TakesCurrent: the requested kind does not gate the block
TakesCurrentUngated(raw_data, forecast_type) ==
    "current" \in DOMAIN raw_data

\* the conditions of the three if statements, lines 128-131, 134-137, 143-146
TakesCurrent(raw_data, forecast_type) ==
    forecast_type \in {CURRENT, MIXED} /\ "current" \in DOMAIN raw_data
TakesDaily(raw_data, forecast_type) ==
    forecast_type \in {DAILY, MIXED} /\ "daily" \in DOMAIN raw_data
TakesHourly(raw_data, forecast_type) ==
    forecast_type \in {HOURLY, MIXED} /\ "hourly" \in DOMAIN raw_data

\* faulty variant of ValidateSeries: the records come out in reverse order
ValidateSeriesReversed(cls, block) ==
    LET items == normalize_timeseries(block)
    IN [i \in 1 .. Len(items) |-> model_validate(cls, items[Len(items) + 1 - i])]

\* [cls.model_validate(item) for item in self._normalize_timeseries(block)]
ValidateSeries(cls, block) ==
    LET items == normalize_timeseries(block)
    IN [i \in 1 .. Len(items) |-> model_validate(cls, items[i])]

\* faulty variant of SeriesError: a record that fails validation is let through
SeriesErrorLenient(cls, block) ==
    IF NormalizeRaises(block) THEN "TypeError" ELSE ""

\* the exception that list comprehension raises, "" when it raises none
SeriesError(cls, block) ==
    IF NormalizeRaises(block) THEN "TypeError"
    ELSE IF \E i \in 1 .. Len(normalize_timeseries(block)) :
                ~Validates(cls, normalize_timeseries(block)[i])
    THEN "ValidationError"
    ELSE ""

\* the first exception of the three statements in program order
ParseError(raw_data, forecast_type) ==
    IF /\ TakesCurrent(raw_data, forecast_type)
       /\ ~Validates(CurrentForecast, raw_data["current"])
    THEN "ValidationError"
    ELSE IF /\ TakesDaily(raw_data, forecast_type)
            /\ SeriesError(DailyForecast, raw_data["daily"]) # ""
    THEN SeriesError(DailyForecast, raw_data["daily"])
    ELSE IF /\ TakesHourly(raw_data, forecast_type)
            /\ SeriesError(HourlyForecast, raw_data["hourly"]) # ""
    THEN SeriesError(HourlyForecast, raw_data["hourly"])
    ELSE ""

\* faulty variant of parse_weather_response: an empty series is left unset
ParseEmptyAsUnset(raw_data, forecast_type, location_display_name) ==
    [ Weather([location_display_name |-> location_display_name]) EXCEPT
        !.current = IF TakesCurrent(raw_data, forecast_type)
                    THEN Some(model_validate(CurrentForecast, raw_data["current"]))
                    ELSE @,
        !.daily = IF /\ TakesDaily(raw_data, forecast_type)
                     /\ ValidateSeries(DailyForecast, raw_data["daily"]) # << >>
                  THEN Some(ValidateSeries(DailyForecast, raw_data["daily"]))
                  ELSE @,
        !.hourly = IF /\ TakesHourly(raw_data, forecast_type)
                      /\ ValidateSeries(HourlyForecast, raw_data["hourly"]) # << >>
                   THEN Some(ValidateSeries(HourlyForecast, raw_data["hourly"]))
                   ELSE @ ]

\* the Weather returned when no statement raises
parse_weather_response(raw_data, forecast_type, location_display_name) ==
    [ Weather([location_display_name |-> location_display_name]) EXCEPT
        !.current = IF TakesCurrent(raw_data, forecast_type)
                    THEN Some(model_validate(CurrentForecast, raw_data["current"]))
                    ELSE @,
        !.daily = IF TakesDaily(raw_data, forecast_type)
                  THEN Some(ValidateSeries(DailyForecast, raw_data["daily"]))
                  ELSE @,
        !.hourly = IF TakesHourly(raw_data, forecast_type)
                   THEN Some(ValidateSeries(HourlyForecast, raw_data["hourly"]))
                   ELSE @ ]

ParseWeatherResponse ==
    /\ pc = "parse_weather_response"
    /\ IF ParseError(parse_args.raw_data, parse_args.forecast_type) # ""
       THEN /\ raised' = ParseError(parse_args.raw_data, parse_args.forecast_type)
            /\ pc' = "raised"
            /\ UNCHANGED result
       ELSE /\ result' = Some(parse_weather_response(
                                parse_args.raw_data, parse_args.forecast_type,
                                parse_args.location_display_name))
            /\ pc' = "returned"
            /\ UNCHANGED raised
    /\ UNCHANGED <<d, days, h, hours, mixed, type, argv, call, params, data,
                   rows, parse_args, requests, env_vars>>

----------------------------------------------------------------------------
\* Provider payloads: the blocks the provider may return, each well formed
\* except for at most one defect in one column of one block

\* the object of the current block and the column-oriented block of n rows
FlatBlock(cls) == [k \in FieldKeys(cls) |-> Datum(k, 1)]
SeriesBlock(cls, n) == [k \in FieldKeys(cls) |-> Column(k, n)]

Without(dict, key) == [k \in DOMAIN dict \ {key} |-> dict[k]]

NoDefect == [block |-> "none", key |-> "none", how |-> "none"]
Defect(block, key, how) == [block |-> block, key |-> key, how |-> how]

BlockModel(block) ==
    IF block = "current" THEN CurrentForecast
    ELSE IF block = "daily" THEN DailyForecast ELSE HourlyForecast

Defects ==
    {NoDefect}
    \cup { Defect(b, "none", "empty") : b \in BlockKeys }
    \cup { Defect(b, k, how) :
             b \in BlockKeys, k \in FieldKeys(HourlyForecast) \cup {"sunrise"},
             how \in {"missing", "mistyped"} }
    \cup { Defect(b, k, how) :
             b \in {"daily", "hourly"},
             k \in FieldKeys(HourlyForecast)
                    \cup {"sunrise", "temperature_2m_max", "precipitation_sum"},
             how \in {"short", "scalar"} }

\* the defect applied to a block b of n rows (n = 1 for the current block)
Damaged(b, n, df) ==
    IF df.how = "empty" THEN EmptyDict
    ELSE IF df.key \notin DOMAIN b THEN b
    ELSE IF df.how = "missing" THEN Without(b, df.key)
    ELSE IF df.how = "scalar" THEN [b EXCEPT ![df.key] = Scalar]
    ELSE IF df.how = "short" /\ n >= 1
    THEN [b EXCEPT ![df.key] = Column(df.key, n - 1)]
    ELSE b

DamagedFlat(b, df) ==
    IF df.how = "mistyped" /\ df.key \in DOMAIN b
    THEN [b EXCEPT ![df.key].ok = FALSE]
    ELSE Damaged(b, 1, df)

DamagedSeries(b, n, df) ==
    IF df.how = "mistyped" /\ df.key \in DOMAIN b /\ n >= 1
    THEN [b EXCEPT ![df.key].items[n].ok = FALSE]
    ELSE Damaged(b, n, df)

\* the raw response: the blocks of `present`, nd daily and nh hourly rows
Payload(present, nd, nh, df) ==
    LET all ==
          [current |-> IF df.block = "current"
                       THEN DamagedFlat(FlatBlock(CurrentForecast), df)
                       ELSE FlatBlock(CurrentForecast),
           daily |-> IF df.block = "daily"
                     THEN DamagedSeries(SeriesBlock(DailyForecast, nd), nd, df)
                     ELSE SeriesBlock(DailyForecast, nd),
           hourly |-> IF df.block = "hourly"
                      THEN DamagedSeries(SeriesBlock(HourlyForecast, nh), nh, df)
                      ELSE SeriesBlock(HourlyForecast, nh)]
    IN [k \in present |-> all[k]]

Payloads ==
    { Payload(present, nd, nh, df) :
        present \in SUBSET BlockKeys, nd \in 0 .. MaxLen, nh \in 0 .. MaxLen,
        df \in Defects }

ParseCall(raw_data, forecast_type, location_display_name) ==
    [raw_data |-> raw_data, forecast_type |-> forecast_type,
     location_display_name |-> location_display_name]

NoParse == [forecast_type |-> "none"]

----------------------------------------------------------------------------
\* api/api_client.py and get_weather, lines 111-117: the provider's answer

\* the answers of the forecast service to one request: any blocks, the daily
\* and hourly ones of any number of rows up to MaxLen, whatever was asked
ReplyDefects ==
    { NoDefect, Defect("daily", "sunrise", "mistyped"),
      Defect("hourly", "time", "missing") }
ReplyPayloads ==
    { Payload(present, n, n, df) :
        present \in SUBSET BlockKeys, n \in 0 .. MaxLen, df \in ReplyDefects }

\* faulty variant of WeatherTransportError: the call is made again
WeatherTransportErrorRetried ==
    /\ pc = "get_weather_get"
    /\ pc' = "get_weather"
    /\ UNCHANGED <<d, days, h, hours, mixed, type, argv, call, params, data,
                   rows, parse_args, result, raised, requests, env_vars>>

\* _get: raise_for_status() raises on a status that is not 2xx
WeatherTransportError ==
    /\ pc = "get_weather_get"
    /\ raised' \in TransportErrors
    /\ pc' = "raised"
    /\ UNCHANGED <<d, days, h, hours, mixed, type, argv, call, params, data,
                   rows, parse_args, result, requests, env_vars>>

\* _get returns r.json(), which goes to _parse_weather_response with the
\* forecast type and the display name of the call
WeatherReply ==
    /\ pc = "get_weather_get"
    /\ \E raw_data \in ReplyPayloads :
          parse_args' = ParseCall(raw_data, call.forecast_type,
                                  call.location.display_name)
    /\ pc' = "parse_weather_response"
    /\ UNCHANGED <<d, days, h, hours, mixed, type, argv, call, params, data,
                   rows, result, raised, requests, env_vars>>

----------------------------------------------------------------------------
\* utils/storage/storage.py and utils/storage/cache_storage.py

\* str.lower() on the place names of the model
Names == {"Moscow", "moscow", "Lima"}
\* faulty variant of Lower: the name is used as given
LowerAsGiven(name) == name

Lower(name) ==
    CASE name = "Moscow" -> "moscow"
      [] name = "Lima" -> "lima"
      [] OTHER -> name

\* Storage.get: the dict of the file, or the empty example when the file is
\* absent or is not JSON
StorageGet(file, empty) == IF file # None THEN The(file) ELSE empty

\* LocationCacheStorage.get_location: data[name.lower()] or None
CacheGetLocation(file, empty, name) ==
    IF Lower(name) \in DOMAIN StorageGet(file, empty)
    THEN Some(StorageGet(file, empty)[Lower(name)])
    ELSE None

\* LocationCacheStorage.save_location: the dict open_data yields, with the
\* entry set under the lower-cased name (the coordinates arrive rounded to
\* hundredths, rounding them again changes nothing)
SaveLocation(file, empty, name, location_data) ==
    Update(StorageGet(file, empty),
           [k \in {Lower(name)} |-> location_data])

\* the cache files a run may start with
CacheFiles ==
    { None, Some(EmptyDict),
      Some([k \in {"moscow"} |->
              [display_name |-> "Moscow", latitude |-> 5575,
               longitude |-> 3762]]) }

\* faulty variant of ClearSelects: the flags are not looked at
ClearSelectsBoth(config, cache) == [cache |-> TRUE, config |-> TRUE]

\* main.py lines 203-213: the storages the `clear` command clears; a flag is
\* None when not given, and --config / --cache make it True
FlagSet(flag) == flag = Some(TRUE)
ClearSelects(config, cache) ==
    IF ~FlagSet(cache) /\ ~FlagSet(config)
    THEN [cache |-> TRUE, config |-> TRUE]
    ELSE [cache |-> FlagSet(cache), config |-> FlagSet(config)]
ClearFlags == { None, Some(TRUE), Some(FALSE) }

\* models/storage.py: get_empty_config_dict()
EmptyConfig == [default |-> None]

\* ConfigStorage.get_default_location: self.get()["default"]
GetDefault(file, empty) == StorageGet(file, empty).default

\* ConfigStorage.set_default_location: the dict open_data yields, with
\* "default" set
SetDefault(file, empty, default_location) ==
    [StorageGet(file, empty) EXCEPT !.default = Some(default_location)]

\* the config files a process may start with
ConfigFiles ==
    { None, Some(EmptyConfig), Some([default |-> Some("Lima")]) }

\* a storage operation with its argument and its return value
Op(name, arg, ret) == [name |-> name, arg |-> arg, ret |-> ret]
NoOp == [name |-> "none"]

\* what the storage operations leave alone
routine_vars == <<pc, d, days, h, hours, mixed, type, call, params, data, rows,
                  parse_args, result, raised, argv, requests, location,
                  location_, geocoded, lookups>>

\* config_storage.set_default_location(name): open_data yields the dict of
\* the file, or the empty example itself when there is no file, and writes
\* the dict back after the assignment
SetDefaultLocation ==
    /\ pc = "storage"
    /\ \E name \in Names :
         LET config == SetDefault(config_file, config_empty, name)
         IN /\ config_file' = Some(config)
            /\ config_empty' = IF config_file = None
                               THEN config ELSE config_empty
            /\ op' = Op("set_default_location", name, None)
    /\ UNCHANGED <<routine_vars, cache_file, cache_empty, output>>

\* config_storage.get_default_location()
GetDefaultLocation ==
    /\ pc = "storage"
    /\ op' = Op("get_default_location", "",
                GetDefault(config_file, config_empty))
    /\ UNCHANGED <<routine_vars, config_file, config_empty, cache_file,
                   cache_empty, output>>

\* location_cache_storage.save_location(name, ...)
CacheSaveLocation ==
    /\ pc = "storage"
    /\ \E name \in Names, location_data \in Locations :
         LET saved == SaveLocation(cache_file, cache_empty, name,
                                   location_data)
         IN /\ cache_file' = Some(saved)
            /\ cache_empty' = IF cache_file = None THEN saved ELSE cache_empty
            /\ op' = Op("save_location", name, None)
    /\ UNCHANGED <<routine_vars, config_file, config_empty, output>>

\* location_cache_storage.get_location(name)
CacheLookup ==
    /\ pc = "storage"
    /\ \E name \in Names :
         op' = Op("get_location", name,
                  CacheGetLocation(cache_file, cache_empty, name))
    /\ UNCHANGED <<routine_vars, config_file, config_empty, cache_file,
                   cache_empty, output>>

\* Storage.clear on the config storage: the file is unlinked
ConfigClear ==
    /\ pc = "storage"
    /\ config_file' = None
    /\ op' = Op("config_clear", "", None)
    /\ UNCHANGED <<routine_vars, config_empty, cache_file, cache_empty,
                   output>>

\* Storage.clear on the location cache
CacheClear ==
    /\ pc = "storage"
    /\ cache_file' = None
    /\ op' = Op("cache_clear", "", None)
    /\ UNCHANGED <<routine_vars, config_file, config_empty, cache_empty,
                   output>>

\* the panel of main.py lines 203-222
ClearPanel(config, cache) ==
    [panel |-> "clear",
     text |-> IF ~FlagSet(cache) /\ ~FlagSet(config) THEN "config and cache"
              ELSE IF FlagSet(cache) /\ FlagSet(config) THEN "cache config"
              ELSE IF FlagSet(cache) THEN "cache" ELSE "config"]

\* the `clear` command, main.py lines 192-223, run as a process of its own:
\* the storages are constructed anew, the selected ones are cleared and the
\* panel is printed
ClearCommand ==
    /\ pc = "storage"
    /\ \E config \in ClearFlags, cache \in ClearFlags :
         /\ cache_file' = IF ClearSelects(config, cache).cache
                          THEN None ELSE cache_file
         /\ config_file' = IF ClearSelects(config, cache).config
                           THEN None ELSE config_file
         /\ op' = Op("clear", [config |-> config, cache |-> cache], None)
         /\ output' = << ClearPanel(config, cache) >>
    /\ config_empty' = EmptyConfig
    /\ cache_empty' = EmptyDict
    /\ UNCHANGED routine_vars

----------------------------------------------------------------------------
\* api/weather_client.py: get_location

\* round(float(x), 2): coordinates, given in thousandths by the geocoder, to
\* the nearest hundredth
Round2(m) == (m + 5) \div 10

\* the candidates of the geocoder, and its answers under limit=1
Candidates ==
    { [display_name |-> "Moscow", lat |-> 55751, lon |-> 37618],
      [display_name |-> "Lima", lat |-> 0 - 12046, lon |-> 0 - 77043] }
GeocoderReplies == { << >> } \cup { <<c>> : c \in Candidates }

GeocoderParams(location_name) ==
    [q |-> location_name, format |-> "json", limit |-> 1]

\* lines 46-50
LocationData(candidate) ==
    [display_name |-> candidate.display_name,
     latitude |-> Round2(candidate.lat),
     longitude |-> Round2(candidate.lon)]

\* `if cache:` a cached entry that is a non-empty dict
CacheHit(cache) == cache # None /\ DOMAIN The(cache) # {}

\* main.py line 122 with get_location lines 32-43: the cache is consulted;
\* a hit returns the Location and the command goes on to get_weather, a miss
\* sends the geocoding request
GetLocation ==
    /\ pc = "get_location"
    /\ LET cache == CacheGetLocation(cache_file, cache_empty, location)
       IN IF CacheHit(cache)
          THEN /\ location_' = Some(The(cache))
               /\ call' = GetWeatherCall(The(cache), The(type), days, hours)
               /\ pc' = "get_weather"
               /\ UNCHANGED requests
          ELSE /\ requests' = Append(requests,
                      Request(GeocoderUrl, GeocoderParams(location)))
               /\ pc' = "get_location_get"
               /\ UNCHANGED <<location_, call>>
    /\ UNCHANGED <<d, days, h, hours, mixed, type, argv, params, data, rows,
                   parse_args, result, raised, location, cache_file,
                   cache_empty, output, geocoded,
                   storage_vars>>

\* the panel of main.py lines 124-131
NotFoundPanel(name) == [panel |-> "not_found", location |-> name]

\* faulty variant of GeocoderTransportError: the error is caught with
\* LocationNotFoundError and reported as a missing location
GeocoderTransportErrorAsNotFound ==
    /\ pc = "get_location_get"
    /\ output' = Append(output, NotFoundPanel(location))
    /\ pc' = "done"
    /\ UNCHANGED <<d, days, h, hours, mixed, type, argv, call, params, data,
                   rows, parse_args, result, raised, requests, location,
                   location_, cache_file, cache_empty, geocoded,
                   storage_vars>>

\* _get raises on a status that is not 2xx or on a network failure; nothing
\* in get_location or in the command catches it
GeocoderTransportError ==
    /\ pc = "get_location_get"
    /\ raised' \in TransportErrors
    /\ pc' = "raised"
    /\ UNCHANGED <<d, days, h, hours, mixed, type, argv, call, params, data,
                   rows, parse_args, result, requests, env_vars>>

\* faulty variant of GeocoderNoCandidates: LocationNotFoundError is not caught
GeocoderNoCandidatesUncaught ==
    /\ pc = "get_location_get"
    /\ geocoded' = Some(<< >>)
    /\ raised' = "LocationNotFoundError"
    /\ pc' = "raised"
    /\ UNCHANGED <<d, days, h, hours, mixed, type, argv, call, params, data,
                   rows, parse_args, result, requests, location,
                   location_, cache_file, cache_empty, output,
                   storage_vars>>

\* lines 43-44 and main.py lines 123-132: an empty answer raises
\* LocationNotFoundError, which the command catches: it prints the panel and
\* returns
GeocoderNoCandidates ==
    /\ pc = "get_location_get"
    /\ geocoded' = Some(<< >>)
    /\ output' = Append(output, NotFoundPanel(location))
    /\ pc' = "done"
    /\ UNCHANGED <<d, days, h, hours, mixed, type, argv, call, params, data,
                   rows, parse_args, result, raised, requests, location,
                   location_, cache_file, cache_empty,
                   storage_vars>>

\* lines 46-61 and main.py lines 134-139: the first candidate is rounded,
\* saved in the cache and returned, and the command goes on to get_weather
GeocoderFound ==
    /\ pc = "get_location_get"
    /\ \E reply \in GeocoderReplies \ { << >> } :
         LET location_data == LocationData(reply[1])
             saved == SaveLocation(cache_file, cache_empty, location,
                                   location_data)
         IN /\ geocoded' = Some(reply)
            /\ cache_file' = Some(saved)
            /\ cache_empty' = IF cache_file = None THEN saved ELSE cache_empty
            /\ location_' = Some(location_data)
            /\ call' = GetWeatherCall(location_data, The(type), days, hours)
    /\ pc' = "get_weather"
    /\ UNCHANGED <<d, days, h, hours, mixed, type, argv, params, data, rows,
                   parse_args, result, raised, requests, location, output,
                   storage_vars>>

----------------------------------------------------------------------------
\* api/weather_client.py: get_location called again and again by one process

\* a get_location call that returned: the name asked, the Location returned,
\* and the number of requests sent by the process up to its return
Lookup(name, loc, sent) == [name |-> name, location |-> loc, sent |-> sent]

\* what the calls leave alone
lookup_frame == <<d, days, h, hours, mixed, type, argv, call, params, data,
                  rows, parse_args, result, output, config_file, config_empty,
                  op>>

\* get_location(name) is called
LookupCall ==
    /\ pc = "idle"
    /\ Len(lookups) < MaxCalls
    /\ location' \in Names
    /\ location_' = None /\ geocoded' = None
    /\ pc' = "lookup"
    /\ UNCHANGED <<lookup_frame, raised, requests, cache_file, cache_empty,
                   lookups>>

\* lines 32-41: a cache hit returns the Location, a miss sends the geocoding
\* request
LookupCache ==
    /\ pc = "lookup"
    /\ LET cache == CacheGetLocation(cache_file, cache_empty, location)
       IN IF CacheHit(cache)
          THEN /\ location_' = Some(The(cache))
               /\ lookups' = Append(lookups,
                      Lookup(location, The(cache), Len(requests)))
               /\ pc' = "idle"
               /\ UNCHANGED requests
          ELSE /\ requests' = Append(requests,
                      Request(GeocoderUrl, GeocoderParams(location)))
               /\ pc' = "lookup_get"
               /\ UNCHANGED <<location_, lookups>>
    /\ UNCHANGED <<lookup_frame, raised, location, geocoded, cache_file,
                   cache_empty>>

\* _get raises
LookupTransportError ==
    /\ pc = "lookup_get"
    /\ raised' \in TransportErrors
    /\ pc' = "raised"
    /\ UNCHANGED <<lookup_frame, requests, location, location_, geocoded,
                   cache_file, cache_empty, lookups>>

\* lines 43-44: an empty answer raises LocationNotFoundError
LookupNoCandidates ==
    /\ pc = "lookup_get"
    /\ geocoded' = Some(<< >>)
    /\ raised' = "LocationNotFoundError"
    /\ pc' = "raised"
    /\ UNCHANGED <<lookup_frame, requests, location, location_, cache_file,
                   cache_empty, lookups>>

\* lines 46-61: the first candidate is rounded, saved and returned
LookupFound ==
    /\ pc = "lookup_get"
    /\ \E reply \in GeocoderReplies \ { << >> } :
         LET location_data == LocationData(reply[1])
             saved == SaveLocation(cache_file, cache_empty, location,
                                   location_data)
         IN /\ geocoded' = Some(reply)
            /\ cache_file' = Some(saved)
            /\ cache_empty' = IF cache_file = None THEN saved ELSE cache_empty
            /\ location_' = Some(location_data)
            /\ lookups' = Append(lookups,
                   Lookup(location, location_data, Len(requests)))
    /\ pc' = "idle"
    /\ UNCHANGED <<lookup_frame, raised, requests, location>>

----------------------------------------------------------------------------
\* utils/formatter.py: format_weather, and main.py lines 141-147

\* Python's truth value of an optional list: set and not empty
TruthyList(o) == o # None /\ The(o) # << >>

\* list[:n] for n > 0
Slice(list, n) == SubSeq(list, 1, Min(n, Len(list)))

DailyPanels(weather, show_daily) ==
    IF TruthyList(weather.daily) /\ Truthy(show_daily) /\ The(show_daily) > 0
    THEN [i \in 1 .. Len(Slice(The(weather.daily), The(show_daily))) |->
            [panel |-> "daily", day |-> The(weather.daily)[i]]]
    ELSE << >>

HourlyPanels(weather, show_hourly) ==
    IF TruthyList(weather.hourly) /\ Truthy(show_hourly)
       /\ The(show_hourly) > 0
    THEN << [panel |-> "hourly",
             items |-> Slice(The(weather.hourly), The(show_hourly))] >>
    ELSE << >>

CurrentPanels(weather) ==
    IF weather.current # None
    THEN << [panel |-> "current", forecast |-> The(weather.current)] >>
    ELSE << >>

\* line 276 reads weather.location_display_name: an attribute the object
\* must have
FormatRaises(weather) == "location_display_name" \notin DOMAIN weather

format_weather(weather, show_daily, show_hourly) ==
    << [panel |-> "header", text |-> weather["location_display_name"]] >>
    \o CurrentPanels(weather)
    \o DailyPanels(weather, show_daily)
    \o HourlyPanels(weather, show_hourly)

\* main.py lines 141-147: print(*format_weather(weather, days, hours))
WeatherRender ==
    /\ pc = "returned"
    /\ IF FormatRaises(The(result))
       THEN /\ raised' = "AttributeError"
            /\ pc' = "raised"
            /\ UNCHANGED output
       ELSE /\ output' = output \o format_weather(The(result), days, hours)
            /\ pc' = "done"
            /\ UNCHANGED raised
    /\ UNCHANGED <<d, days, h, hours, mixed, type, argv, call, params, data,
                   rows, parse_args, result, requests, location, location_,
                   cache_file, cache_empty, geocoded,
                   storage_vars>>

----------------------------------------------------------------------------
\* Specifications

\* no request issued, no place given, nothing cached, nothing printed
StorageIdle ==
    /\ config_file = None /\ config_empty = EmptyConfig
    /\ op = NoOp
    /\ lookups = << >>

EnvIdle ==
    /\ requests = << >>
    /\ location = "" /\ location_ = None
    /\ cache_file = None /\ cache_empty = EmptyDict
    /\ output = << >>
    /\ geocoded = None
    /\ StorageIdle

\* the mode resolution of the `weather` command, started with any flags
Init ==
    /\ EnvIdle
    /\ pc = "weather"
    /\ d \in BOOLEAN /\ h \in BOOLEAN /\ mixed \in BOOLEAN
    /\ days \in DaysOptions /\ hours \in HoursOptions
    /\ argv = [d |-> d, days |-> days, h |-> h, hours |-> hours, mixed |-> mixed]
    /\ type = None
    /\ call = NoCall /\ params = None
    /\ data = EmptyDict /\ rows = None
    /\ parse_args = NoParse /\ result = None
    /\ raised = ""

Next == WeatherResolveMode

Spec == Init /\ [][Next]_vars

\* get_weather called with any forecast type and any counts
InitCompose ==
    /\ EnvIdle
    /\ pc = "get_weather"
    /\ call \in { GetWeatherCall(l, t, dd, hh) :
                    l \in Locations, t \in ForecastType,
                    dd \in DaysArgs, hh \in HoursArgs }
    /\ params = None /\ raised = ""
    /\ d = FALSE /\ days = None /\ h = FALSE /\ hours = None /\ mixed = FALSE
    /\ argv = [d |-> FALSE, days |-> None, h |-> FALSE, hours |-> None,
               mixed |-> FALSE]
    /\ type = None
    /\ data = EmptyDict /\ rows = None
    /\ parse_args = NoParse /\ result = None

NextCompose == GetWeatherCompose

SpecCompose == InitCompose /\ [][NextCompose]_vars

\* _normalize_timeseries called with any block
InitNormalize ==
    /\ EnvIdle
    /\ pc = "normalize_timeseries"
    /\ data \in Blocks
    /\ rows = None /\ raised = ""
    /\ d = FALSE /\ days = None /\ h = FALSE /\ hours = None /\ mixed = FALSE
    /\ argv = [d |-> FALSE, days |-> None, h |-> FALSE, hours |-> None,
               mixed |-> FALSE]
    /\ type = None
    /\ call = NoCall /\ params = None
    /\ parse_args = NoParse /\ result = None

NextNormalize == NormalizeTimeseries

SpecNormalize == InitNormalize /\ [][NextNormalize]_vars

\* _parse_weather_response called with any forecast type and any payload
InitParse ==
    /\ EnvIdle
    /\ pc = "parse_weather_response"
    /\ parse_args \in { ParseCall(raw, t, l.display_name) :
                          raw \in Payloads, t \in ForecastType, l \in Locations }
    /\ result = None /\ raised = ""
    /\ d = FALSE /\ days = None /\ h = FALSE /\ hours = None /\ mixed = FALSE
    /\ argv = [d |-> FALSE, days |-> None, h |-> FALSE, hours |-> None,
               mixed |-> FALSE]
    /\ type = None
    /\ call = NoCall /\ params = None
    /\ data = EmptyDict /\ rows = None

NextParse == ParseWeatherResponse

SpecParse == InitParse /\ [][NextParse]_vars

\* get_weather called and answered: composed, sent, answered, parsed
CountSamples == { None, Some(0), Some(1), Some(2), Some(MaxDaysArg) }

InitGetWeather ==
    /\ EnvIdle
    /\ pc = "get_weather"
    /\ call \in { GetWeatherCall(l, t, dd, hh) :
                    l \in Locations, t \in ForecastType,
                    dd \in CountSamples, hh \in CountSamples }
    /\ params = None /\ raised = ""
    /\ d = FALSE /\ days = None /\ h = FALSE /\ hours = None /\ mixed = FALSE
    /\ argv = [d |-> FALSE, days |-> None, h |-> FALSE, hours |-> None,
               mixed |-> FALSE]
    /\ type = None
    /\ data = EmptyDict /\ rows = None
    /\ parse_args = NoParse /\ result = None

NextGetWeather ==
    \/ GetWeatherCompose
    \/ WeatherTransportError
    \/ WeatherReply
    \/ ParseWeatherResponse

SpecGetWeather == InitGetWeather /\ [][NextGetWeather]_vars

\* the `weather` command from its options to its exit
DaysSamples == CountSamples \cup { Some(0 - 1) }
HoursSamples == { None, Some(0), Some(2), Some(MaxHoursArg) }

InitWeather ==
    /\ pc = "weather"
    /\ d \in BOOLEAN /\ h \in BOOLEAN /\ mixed \in BOOLEAN
    /\ days \in DaysSamples /\ hours \in HoursSamples
    /\ argv = [d |-> d, days |-> days, h |-> h, hours |-> hours,
               mixed |-> mixed]
    /\ type = None
    /\ call = NoCall /\ params = None /\ raised = ""
    /\ data = EmptyDict /\ rows = None
    /\ parse_args = NoParse /\ result = None
    /\ requests = << >>
    /\ location \in Names /\ location_ = None
    /\ cache_file \in CacheFiles /\ cache_empty = EmptyDict
    /\ output = << >>
    /\ geocoded = None
    /\ StorageIdle

NextWeather ==
    \/ WeatherResolveMode
    \/ GetLocation
    \/ GeocoderTransportError
    \/ GeocoderNoCandidates
    \/ GeocoderFound
    \/ GetWeatherCompose
    \/ WeatherTransportError
    \/ WeatherReply
    \/ ParseWeatherResponse
    \/ WeatherRender

SpecWeather == InitWeather /\ [][NextWeather]_vars

\* the locals of the routines, none of which is running
RoutinesIdle ==
    /\ d = FALSE /\ days = None /\ h = FALSE /\ hours = None /\ mixed = FALSE
    /\ argv = [d |-> FALSE, days |-> None, h |-> FALSE, hours |-> None,
               mixed |-> FALSE]
    /\ type = None
    /\ call = NoCall /\ params = None /\ raised = ""
    /\ data = EmptyDict /\ rows = None
    /\ parse_args = NoParse /\ result = None

\* one process using the two storages, and the `clear` command, in any order
InitStorage ==
    /\ RoutinesIdle
    /\ pc = "storage"
    /\ requests = << >>
    /\ location = "" /\ location_ = None
    /\ geocoded = None
    /\ output = << >>
    /\ config_file \in ConfigFiles /\ config_empty = EmptyConfig
    /\ cache_file \in CacheFiles /\ cache_empty = EmptyDict
    /\ op = NoOp
    /\ lookups = << >>

NextStorage ==
    \/ SetDefaultLocation
    \/ GetDefaultLocation
    \/ CacheSaveLocation
    \/ CacheLookup
    \/ ConfigClear
    \/ CacheClear
    \/ ClearCommand

SpecStorage == InitStorage /\ [][NextStorage]_vars

\* one process calling get_location up to MaxCalls times
InitLookups ==
    /\ RoutinesIdle
    /\ pc = "idle"
    /\ requests = << >>
    /\ location = "" /\ location_ = None
    /\ geocoded = None
    /\ output = << >>
    /\ config_file = None /\ config_empty = EmptyConfig
    /\ cache_file \in CacheFiles /\ cache_empty = EmptyDict
    /\ op = NoOp
    /\ lookups = << >>

NextLookups ==
    \/ LookupCall
    \/ LookupCache
    \/ LookupTransportError
    \/ LookupNoCandidates
    \/ LookupFound

SpecLookups == InitLookups /\ [][NextLookups]_vars

----------------------------------------------------------------------------
\* Properties of the request composer (SpecCompose)

Composed == pc = "get_weather_get"

\* C1: the parameter set holds the key `current` iff the kind is Current or
\* Mixed, `daily` iff it is Daily or Mixed, `hourly` iff it is Hourly or
\* Mixed: exactly the blocks the kind implies, whatever days and hours are.
C1_BlocksOfKind ==
    Composed =>
        /\ "current" \in DOMAIN The(params)
             <=> call.forecast_type \in {CURRENT, MIXED}
        /\ "daily" \in DOMAIN The(params)
             <=> call.forecast_type \in {DAILY, MIXED}
        /\ "hourly" \in DOMAIN The(params)
             <=> call.forecast_type \in {HOURLY, MIXED}

\* a Current request with counts given was composed: it holds `current` only
C1_Witness ==
    /\ Composed
    /\ call.forecast_type = CURRENT
    /\ call.days = Some(7) /\ call.hours = Some(6)
    /\ DOMAIN The(params) \cap BlockKeys = {"current"}

\* the clamp as the specification writes it
ReferenceClamp(n, lo, hi) == IF n < lo THEN lo ELSE IF n > hi THEN hi ELSE n

\* C2: for integer days and hours the count sent is the reference clamp of
\* the argument to 1..16 (days) and 1..168 (hours), and the call composes
\* the request instead of raising.
C2_CountsAreClamped ==
    (pc # "get_weather" /\ call.days # None /\ call.hours # None) =>
        /\ Composed /\ raised = ""
        /\ call.forecast_type \in {DAILY, MIXED} =>
             The(params)["forecast_days"] = ReferenceClamp(The(call.days), 1, 16)
        /\ call.forecast_type \in {HOURLY, MIXED} =>
             The(params)["forecast_hours"] = ReferenceClamp(The(call.hours), 1, 168)

\* days = 0 went out as 1 and hours = 170 as 168
C2_Witness ==
    /\ Composed
    /\ call.forecast_type = MIXED
    /\ call.days = Some(0) /\ call.hours = Some(170)
    /\ The(params)["forecast_days"] = 1
    /\ The(params)["forecast_hours"] = 168

\* C3: forecast_days is present iff daily is, forecast_hours iff hourly is;
\* when present they lie in 1..16 and 1..168; a Current request carries
\* neither.
C3_CountsFollowBlocks ==
    Composed =>
        LET p == The(params)
        IN /\ "forecast_days" \in DOMAIN p <=> "daily" \in DOMAIN p
           /\ "forecast_hours" \in DOMAIN p <=> "hourly" \in DOMAIN p
           /\ "forecast_days" \in DOMAIN p => p["forecast_days"] \in 1 .. 16
           /\ "forecast_hours" \in DOMAIN p => p["forecast_hours"] \in 1 .. 168
           /\ call.forecast_type = CURRENT => DOMAIN p \cap CountKeys = {}

\* a Daily request for more than 16 days was composed: a day count of 16
\* and no hour count
C3_Witness ==
    /\ Composed
    /\ call.forecast_type = DAILY
    /\ call.days = Some(MaxDaysArg) /\ call.hours = Some(6)
    /\ DOMAIN The(params) \cap CountKeys = {"forecast_days"}
    /\ The(params)["forecast_days"] = 16

----------------------------------------------------------------------------
\* Properties of the mode resolution of the `weather` command (Spec)

Resolved == pc = "get_location"

\* the signals of the command line: an explicit count is a signal whatever
\* its value
DailyIntent == argv.d \/ argv.days # None
HourlyIntent == argv.h \/ argv.hours # None
NoSignal == ~argv.mixed /\ ~DailyIntent /\ ~HourlyIntent

\* C4: with none of -d, --days, -h, --hours, --mixed given, the kind is
\* Current and days and hours stay unset (not defaulted to 4 and 12).
C4_NoSignalIsCurrent ==
    (Resolved /\ NoSignal) =>
        type = Some(CURRENT) /\ days = None /\ hours = None

\* the command was run without any flag and the mode was resolved
C4_Witness ==
    /\ Resolved
    /\ argv = [d |-> FALSE, days |-> None, h |-> FALSE, hours |-> None,
               mixed |-> FALSE]
    /\ type = Some(CURRENT)

\* C5: with --mixed, or with a daily-intent and an hourly-intent signal, the
\* kind is Mixed, days is the explicit day count if one was given and 4
\* otherwise, hours is the explicit hour count if one was given and 12
\* otherwise.
C5_MixedResolution ==
    (Resolved /\ (argv.mixed \/ (DailyIntent /\ HourlyIntent))) =>
        /\ type = Some(MIXED)
        /\ days = IF argv.days # None THEN argv.days ELSE Some(4)
        /\ hours = IF argv.hours # None THEN argv.hours ELSE Some(12)

\* C6: without --mixed, with a daily-intent signal and no hourly-intent
\* signal, the kind is Daily, days is the explicit day count if one was
\* given and 4 otherwise, and hours stays unset.
C6_DailyResolution ==
    (Resolved /\ ~argv.mixed /\ DailyIntent /\ ~HourlyIntent) =>
        /\ type = Some(DAILY)
        /\ days = IF argv.days # None THEN argv.days ELSE Some(4)
        /\ hours = None

\* C7: without --mixed, with an hourly-intent signal and no daily-intent
\* signal, the kind is Hourly, hours is the explicit hour count if one was
\* given and 12 otherwise, and days stays unset.
C7_HourlyResolution ==
    (Resolved /\ ~argv.mixed /\ HourlyIntent /\ ~DailyIntent) =>
        /\ type = Some(HOURLY)
        /\ hours = IF argv.hours # None THEN argv.hours ELSE Some(12)
        /\ days = None

----------------------------------------------------------------------------
\* Properties of the time-series normalizer (SpecNormalize)

\* the block has a "time" entry that is a list
HasTime == "time" \in DOMAIN data /\ data["time"].isList

\* C8: for a block with a "time" list of length n the normalizer returns n
\* records, and record i holds field k iff the list of field k is longer
\* than i, with the value that list has at index i; so aligned lists are
\* transposed whole and a shorter list is left out of the later records,
\* without an error.
C8_Transposition ==
    (pc # "normalize_timeseries" /\ HasTime) =>
        /\ pc = "returned" /\ raised = ""
        /\ Len(The(rows)) = Len(data["time"].items)
        /\ \A i \in 1 .. Len(The(rows)) :
             /\ \A k \in DOMAIN data :
                  k \in DOMAIN The(rows)[i]
                    <=> (data[k].isList /\ Len(data[k].items) >= i)
             /\ \A k \in DOMAIN The(rows)[i] :
                  The(rows)[i][k] = data[k].items[i]

\* {"time": [t0, t1], "x": [x0]} came back as [{time: t0, x: x0}, {time: t1}]
C8_Witness ==
    /\ pc = "returned"
    /\ data = [k \in {"time", "x"} |->
                 IF k = "time" THEN Column("time", 2) ELSE Column("x", 1)]
    /\ Len(The(rows)) = 2
    /\ DOMAIN The(rows)[1] = {"time", "x"}
    /\ DOMAIN The(rows)[2] = {"time"}
    /\ The(rows)[2]["time"] = Datum("time", 2)

\* C9: for an empty block and for a block without a "time" entry the
\* normalizer returns the empty sequence and raises nothing, whatever other
\* fields the block holds.
C9_EmptyWithoutTime ==
    (pc # "normalize_timeseries"
       /\ (data = EmptyDict \/ "time" \notin DOMAIN data)) =>
        /\ pc = "returned" /\ raised = ""
        /\ rows = Some(<< >>)

\* a block with two other fields and no "time" came back as []
C9_Witness ==
    /\ pc = "returned"
    /\ DOMAIN data = {"weather_code", "x"}
    /\ data["x"] = Column("x", 2)
    /\ rows = Some(<< >>)

----------------------------------------------------------------------------
\* Properties of the response parser (SpecParse)

\* every block of the payload is as the provider documents it: the current
\* block holds a value of the declared type for every field, a daily or
\* hourly block holds for every field a list as long as "time" of such values
WellFormed(raw_data) ==
    \A block \in DOMAIN raw_data :
        /\ DOMAIN raw_data[block] = FieldKeys(BlockModel(block))
        /\ \A k \in DOMAIN raw_data[block] :
              IF block = "current"
              THEN raw_data[block][k].ok
              ELSE /\ raw_data[block][k].isList
                   /\ Len(raw_data[block][k].items)
                        = Len(raw_data[block]["time"].items)
                   /\ \A i \in 1 .. Len(raw_data[block][k].items) :
                         raw_data[block][k].items[i].ok

KindImplies(block) ==
    parse_args.forecast_type \in
        (IF block = "current" THEN {CURRENT, MIXED}
         ELSE IF block = "daily" THEN {DAILY, MIXED} ELSE {HOURLY, MIXED})

\* C10: the parser sets the current (daily, hourly) branch of the Weather iff
\* the kind implies the block and the payload holds it; a block the kind
\* does not imply stays unset though present, and a block the kind implies
\* but the payload lacks stays unset; a well-formed payload never fails the
\* parse.
C10_BranchesGatedByKind ==
    /\ pc = "returned" =>
         \A block \in BlockKeys :
             The(result)[block] # None
               <=> (KindImplies(block) /\ block \in DOMAIN parse_args.raw_data)
    /\ (pc # "parse_weather_response" /\ WellFormed(parse_args.raw_data)) =>
         pc = "returned" /\ raised = ""

\* a Daily parse of a payload holding current and daily, without hourly:
\* current and hourly stay unset, daily holds its two records
C10_Witness ==
    /\ pc = "returned"
    /\ parse_args.forecast_type = DAILY
    /\ DOMAIN parse_args.raw_data = {"current", "daily"}
    /\ WellFormed(parse_args.raw_data)
    /\ The(result).current = None
    /\ The(result).hourly = None
    /\ The(result).daily # None
    /\ Len(The(The(result).daily)) = 2

\* the block is one the parser extracts: implied by the kind and present
Extracted(block) ==
    KindImplies(block) /\ block \in DOMAIN parse_args.raw_data

\* the value the provider gave for field f in record i of a series block
\* (in the only record, i = 1, of the current block), None when it gave none
Given(block, f, i) ==
    LET b == parse_args.raw_data[block]
    IN IF FieldKey(f) \notin DOMAIN b THEN None
       ELSE IF block = "current" THEN Some(b[FieldKey(f)])
       ELSE IF b[FieldKey(f)].isList /\ Len(b[FieldKey(f)].items) >= i
       THEN Some(b[FieldKey(f)].items[i])
       ELSE None

\* the number of records of a block: one for current, len(time) for a series
RecordCount(block) ==
    LET b == parse_args.raw_data[block]
    IN IF block = "current" THEN 1
       ELSE IF "time" \in DOMAIN b /\ b["time"].isList
       THEN Len(b["time"].items) ELSE 0

\* record i of the block has a required field missing or a field mistyped
InvalidRecord(block, i) ==
    \E n \in 1 .. Len(BlockModel(block)) :
        LET f == BlockModel(block)[n]
        IN IF Given(block, f, i) = None
           THEN f.required
           ELSE ~The(Given(block, f, i)).ok

\* C11: if one record of one extracted block fails validation, the parse
\* raises and returns no Weather, however valid the other records and blocks
\* are: there is no partly populated result.
C11_OneBadRecordFailsAll ==
    (/\ pc # "parse_weather_response"
     /\ \E block \in BlockKeys :
            /\ Extracted(block)
            /\ \E i \in 1 .. RecordCount(block) : InvalidRecord(block, i)) =>
        pc = "raised" /\ raised # "" /\ result = None

\* a Mixed parse whose daily block has one mistyped sunrise in its third
\* record, everything else valid, raised ValidationError
C11_Witness ==
    /\ pc = "raised" /\ raised = "ValidationError" /\ result = None
    /\ parse_args.forecast_type = MIXED
    /\ DOMAIN parse_args.raw_data = BlockKeys
    /\ RecordCount("daily") = 3
    /\ ~InvalidRecord("current", 1)
    /\ \A i \in 1 .. RecordCount("hourly") : ~InvalidRecord("hourly", i)
    /\ \A i \in 1 .. 2 : ~InvalidRecord("daily", i)
    /\ Given("daily", FieldNamed(DailyForecast, "sunrise"), 3) # None
    /\ ~The(Given("daily", FieldNamed(DailyForecast, "sunrise"), 3)).ok

\* C12: record i of the daily (hourly) sequence is built from index i of the
\* provider's arrays: its timestamp is time[i] and every value it holds was
\* at index i of its column; the sequence has one record per time entry, in
\* the provider's order.
C12_IndexOrder ==
    pc = "returned" =>
        \A block \in {"daily", "hourly"} :
            The(result)[block] # None =>
                LET series == The(The(result)[block])
                IN /\ Len(series) = RecordCount(block)
                   /\ \A i \in 1 .. Len(series) :
                        /\ series[i]["time"] =
                             Some(parse_args.raw_data[block]["time"].items[i])
                        /\ \A name \in DOMAIN series[i] :
                             series[i][name] # None =>
                                 The(series[i][name]).at = i

\* an Hourly parse of three rows returned them in index order
C12_Witness ==
    /\ pc = "returned"
    /\ parse_args.forecast_type = HOURLY
    /\ The(result).hourly # None
    /\ Len(The(The(result).hourly)) = 3
    /\ \A i \in 1 .. 3 :
         The(The(result).hourly)[i]["time"] = Some(Datum("time", i))

\* the block holds no time data: it is empty, has no "time", or an empty one
NoTimeData(b) ==
    \/ b = EmptyDict
    \/ "time" \notin DOMAIN b
    \/ b["time"].isList /\ b["time"].items = << >>

\* C14: when the kind implies daily (hourly) and the payload holds the block
\* but the block is empty or has no time data, the branch is the empty
\* sequence and the parse does not fail on it; the branch is unset only when
\* the block was not requested or not returned.
C14_EmptyIsNotUnset ==
    \A block \in {"daily", "hourly"} :
        /\ (pc = "returned" /\ Extracted(block)
              /\ NoTimeData(parse_args.raw_data[block])) =>
               The(result)[block] = Some(<< >>)
        /\ (pc # "parse_weather_response" /\ Extracted(block)
              /\ NoTimeData(parse_args.raw_data[block])
              /\ WellFormed(Without(parse_args.raw_data, block))) =>
               pc = "returned"
        /\ (pc = "returned" /\ The(result)[block] = None) => ~Extracted(block)

\* a Daily parse of a payload whose daily block is {} returned daily = [],
\* and hourly, present but not requested, unset
C14_Witness ==
    /\ pc = "returned"
    /\ parse_args.forecast_type = DAILY
    /\ DOMAIN parse_args.raw_data = {"daily", "hourly"}
    /\ parse_args.raw_data["daily"] = EmptyDict
    /\ The(result).daily = Some(<< >>)
    /\ The(result).hourly = None

\* C15: the Weather returned carries the display name passed to the parser
\* as its location label, never the default placeholder.
C15_LocationLabel ==
    pc = "returned" =>
        The(result).location_name = parse_args.location_display_name

----------------------------------------------------------------------------
\* Properties of the field schema, as the composer sends it (SpecCompose)

\* the blocks of the composed request and the elements of a list
RequestedBlocks == DOMAIN The(params) \cap BlockKeys
Elements(list) == { list[i] : i \in 1 .. Len(list) }

\* the fields of a model that declare a provider alias, and the position of
\* the field that declares alias a
Aliased(cls) == { n \in 1 .. Len(cls) : cls[n].alias # None }
Declares(cls, a) == CHOOSE n \in 1 .. Len(cls) : cls[n].alias = Some(a)

\* C16: the request list of each record variant is the aliases of the shared
\* base fields followed by those of the variant's own fields, in declaration
\* order, one entry per aliased field, a field without alias left out; it is
\* the same list in every request.
C16_RequestFieldsInOrder ==
    Composed =>
        \A block \in RequestedBlocks :
            LET cls == BlockModel(block)
                list == The(params)[block]
            IN /\ Len(list) = Cardinality(Aliased(cls))
               /\ \A i \in 1 .. Len(list) :
                    \E n \in Aliased(cls) : cls[n].alias = Some(list[i])
               /\ \A i, j \in 1 .. Len(list) :
                    i < j => Declares(cls, list[i]) < Declares(cls, list[j])
               /\ \A n \in 1 .. Len(cls) :
                    cls[n].alias = None => cls[n].name \notin Elements(list)
               /\ list[1] = "weather_code"

\* a Mixed request was composed with the current list as declared
C16_Witness ==
    /\ Composed
    /\ call.forecast_type = MIXED
    /\ The(params)["current"] =
         << "weather_code", "temperature_2m", "apparent_temperature",
            "wind_speed_10m", "wind_direction_10m", "relative_humidity_2m",
            "is_day" >>
    /\ Len(The(params)["daily"]) = 10
    /\ Len(The(params)["hourly"]) = 7

\* C17 as claimed: the names requested for a variant are the names the parser
\* reads for it, and every field of the variant has a provider alias.
C17_OneMappingBothWays ==
    Composed =>
        \A block \in RequestedBlocks :
            /\ Elements(The(params)[block]) = FieldKeys(BlockModel(block))
            /\ Aliased(BlockModel(block)) = 1 .. Len(BlockModel(block))

\* C17 (amended): the names requested for a variant are the names the parser
\* reads for it except "time"; every field but time has a provider alias;
\* time has none, is not requested, and is read under its own name.
C17_OneMappingExceptTime ==
    Composed =>
        \A block \in RequestedBlocks :
            LET cls == BlockModel(block)
            IN /\ Elements(The(params)[block]) = FieldKeys(cls) \ {"time"}
               /\ "time" \in FieldKeys(cls)
               /\ \A n \in 1 .. Len(cls) :
                    cls[n].alias = None <=> cls[n].name = "time"

\* a Daily request was composed: it names sunrise and not time, which the
\* parser reads
C17_Witness ==
    /\ Composed
    /\ call.forecast_type = DAILY
    /\ "sunrise" \in Elements(The(params)["daily"])
    /\ "time" \notin Elements(The(params)["daily"])
    /\ "time" \in FieldKeys(DailyForecast)

----------------------------------------------------------------------------
\* Properties of get_weather, request to result (SpecGetWeather)

\* C13: whatever the provider answered, the daily sequence of the Weather
\* returned is no longer than the forecast_days sent, and the hourly one no
\* longer than the forecast_hours sent.
C13_LengthWithinCount ==
    pc = "returned" =>
        /\ The(result).daily # None =>
             Len(The(The(result).daily)) <= The(params)["forecast_days"]
        /\ The(result).hourly # None =>
             Len(The(The(result).hourly)) <= The(params)["forecast_hours"]

----------------------------------------------------------------------------
\* Properties of the `weather` command (SpecWeather)

RequestsTo(url) == { i \in 1 .. Len(requests) : requests[i].url = url }

NoCandidates == geocoded = Some(<< >>)

\* C19: when the geocoder returns no candidates, the command has printed the
\* location-not-found panel and returned with no exception; no forecast
\* request was sent and the Location stayed unresolved; and no step of a run
\* that leaves the Location unresolved writes the location cache.
C19_NotFoundReturnsCleanly ==
    /\ [](NoCandidates =>
            /\ pc = "done"
            /\ raised = ""
            /\ output = << NotFoundPanel(location) >>
            /\ RequestsTo(WeatherUrl) = {}
            /\ location_ = None)
    /\ [][location_' = None => UNCHANGED <<cache_file, cache_empty>>]_vars

\* "Lima" is not in the cache, the geocoder was asked and knew no such place
C19_Witness ==
    /\ NoCandidates
    /\ location = "Lima"
    /\ cache_file # None
    /\ requests = << Request(GeocoderUrl, GeocoderParams("Lima")) >>
    /\ pc = "done"

\* where the resolved Location came from: the cache, with no geocoding
\* request, or the first candidate of a geocoder answer
ResolvedFromCache ==
    /\ RequestsTo(GeocoderUrl) = {}
    /\ geocoded = None
    /\ CacheGetLocation(cache_file, cache_empty, location) = location_
ResolvedByGeocoder ==
    /\ RequestsTo(GeocoderUrl) # {}
    /\ geocoded # None /\ The(geocoded) # << >>
    /\ The(location_) = LocationData(The(geocoded)[1])

\* C20: at most one forecast request and at most one geocoding request are
\* sent, the geocoding request never after the forecast request; a forecast
\* request is sent only with the Location resolved, from the cache or from a
\* geocoder answer with a candidate, and carries its latitude and longitude.
C20_CallsInOrder ==
    /\ Cardinality(RequestsTo(WeatherUrl)) <= 1
    /\ Cardinality(RequestsTo(GeocoderUrl)) <= 1
    /\ \A i \in RequestsTo(WeatherUrl) : \A j \in RequestsTo(GeocoderUrl) :
         j < i
    /\ \A i \in RequestsTo(WeatherUrl) :
         /\ location_ # None
         /\ ResolvedFromCache \/ ResolvedByGeocoder
         /\ requests[i].params["latitude"] = The(location_).latitude
         /\ requests[i].params["longitude"] = The(location_).longitude

\* geocoding, then the forecast request with the rounded coordinates of Lima
C20_Witness ==
    /\ Len(requests) = 2
    /\ requests[1].url = GeocoderUrl
    /\ requests[2].url = WeatherUrl
    /\ The(geocoded)[1].lat = 0 - 12046
    /\ requests[2].params["latitude"] = 0 - 1205
    /\ requests[2].params["longitude"] = 0 - 7704

\* a transport error ended the run, in the geocoding call or in the forecast
\* call
TransportFailed == pc = "raised" /\ raised \in TransportErrors
FailedInGeocoding ==
    TransportFailed /\ requests[Len(requests)].url = GeocoderUrl

\* C22: a transport error of either call ends the command with that exception
\* and nothing reported as location-not-found; when the geocoding call failed,
\* no forecast request was sent and the Location stayed unresolved, and no
\* step of a run without a geocoder answer writes the location cache.
C22_TransportErrorPropagates ==
    /\ [](TransportFailed =>
            /\ requests # << >>
            /\ \A i \in 1 .. Len(output) : output[i].panel # "not_found"
            /\ FailedInGeocoding =>
                 /\ RequestsTo(WeatherUrl) = {}
                 /\ location_ = None
                 /\ geocoded = None)
    /\ [][geocoded' = None /\ location_' = None =>
            UNCHANGED <<cache_file, cache_empty>>]_vars
    /\ [][pc = "get_location_get" /\ geocoded' = None =>
            pc' = "raised" /\ raised' \in TransportErrors]_vars
    /\ [][pc = "get_weather_get" /\ pc' # "parse_weather_response" =>
            pc' = "raised" /\ raised' \in TransportErrors]_vars

\* the geocoding call for "Lima" failed on the network
C22_Witness ==
    /\ FailedInGeocoding
    /\ raised = "ConnectionError"
    /\ location = "Lima"
    /\ cache_file = Some(EmptyDict)

\* C24: every forecast request of a run given --days v carries the daily
\* block with forecast_days = clamp(v, 1, 16), 0 and negative v giving 1, and
\* every run given --hours v the hourly block with forecast_hours =
\* clamp(v, 1, 168).
C24_ExplicitCountClamped ==
    \A i \in RequestsTo(WeatherUrl) :
        /\ argv.days # None =>
             /\ "daily" \in DOMAIN requests[i].params
             /\ requests[i].params["forecast_days"]
                  = ReferenceClamp(The(argv.days), 1, 16)
        /\ argv.hours # None =>
             /\ "hourly" \in DOMAIN requests[i].params
             /\ requests[i].params["forecast_hours"]
                  = ReferenceClamp(The(argv.hours), 1, 168)

----------------------------------------------------------------------------
\* Properties of the mode resolution as input of the composer (Spec)

\* C25: for every combination of the five signals the resolution chooses
\* exactly one kind; with Daily or Mixed days is a set integer, with Hourly
\* or Mixed hours is a set integer, so get_weather called with the resolved
\* values never clamps an unset count.
C25_ResolverFeedsComposer ==
    Resolved =>
        /\ Cardinality(type) = 1
        /\ type \subseteq ForecastType
        /\ The(type) \in {DAILY, MIXED} => days # None /\ The(days) \in Int
        /\ The(type) \in {HOURLY, MIXED} => hours # None /\ The(hours) \in Int
        /\ \A l \in Locations :
             ~ComposeRaises(GetWeatherCall(l, The(type), days, hours))

\* -d alone: Daily, with the default day count and hours left unset
C25_Witness ==
    /\ Resolved
    /\ argv = [d |-> TRUE, days |-> None, h |-> FALSE, hours |-> None,
               mixed |-> FALSE]
    /\ type = Some(DAILY)
    /\ days = Some(4)
    /\ hours = None

----------------------------------------------------------------------------
\* Properties of the rendering (SpecWeather)

\* get_weather returned and the command is about to print
ToRender == pc = "returned" /\ result # None /\ raised = ""

\* the rows of the hourly panel format_weather builds, 0 without a panel
HourlyRows(weather, show_hourly) ==
    IF HourlyPanels(weather, show_hourly) = << >>
    THEN 0
    ELSE Len(HourlyPanels(weather, show_hourly)[1].items)

\* C27: for the Weather fetched and the counts resolved, format_weather
\* builds min(len(weather.daily), clamp(days, 1, 16)) daily panels and an
\* hourly panel of min(len(weather.hourly), clamp(hours, 1, 168)) rows.
C27_RenderedAsRequested ==
    ToRender =>
        /\ (The(result).daily # None /\ days # None) =>
             Len(DailyPanels(The(result), days))
               = Min(Len(The(The(result).daily)),
                     ReferenceClamp(The(days), 1, 16))
        /\ (The(result).hourly # None /\ hours # None) =>
             HourlyRows(The(result), hours)
               = Min(Len(The(The(result).hourly)),
                     ReferenceClamp(The(hours), 1, 168))

----------------------------------------------------------------------------
\* Properties of the parser on arrays that are not aligned (SpecParse)

SeriesKeys == {"daily", "hourly"}

\* the array of field f in an extracted series block is shorter than "time"
ShortArray(block, f) ==
    /\ Extracted(block)
    /\ f.name # "time"
    /\ FieldKey(f) \in DOMAIN parse_args.raw_data[block]
    /\ parse_args.raw_data[block][FieldKey(f)].isList
    /\ Len(parse_args.raw_data[block][FieldKey(f)].items) < RecordCount(block)

\* nothing else is wrong with the response: every extracted series block
\* has a "time" list or none, and no record lacks a required field or holds
\* a mistyped one
NothingInvalid ==
    /\ \A c \in SeriesKeys :
         (Extracted(c) /\ "time" \in DOMAIN parse_args.raw_data[c]) =>
             parse_args.raw_data[c]["time"].isList
    /\ \A c \in BlockKeys :
         Extracted(c) =>
             \A i \in 1 .. RecordCount(c) : ~InvalidRecord(c, i)

\* C28: in an extracted daily or hourly block with an array shorter than
\* "time": if the field is required the parse raises ValidationError and
\* returns nothing, though the normalizer did not raise; if it is optional
\* and nothing else is invalid the parse returns, with as many records as
\* "time" has entries, the field set up to the array's end and unset past it.
C28_ShortArrayByField ==
    pc # "parse_weather_response" =>
        \A block \in SeriesKeys :
          \A n \in 1 .. Len(BlockModel(block)) :
            LET f == BlockModel(block)[n]
                short == Len(parse_args.raw_data[block][FieldKey(f)].items)
            IN ShortArray(block, f) =>
                 IF f.required
                 THEN /\ pc = "raised" /\ raised = "ValidationError"
                      /\ result = None
                      /\ ~NormalizeRaises(parse_args.raw_data[block])
                 ELSE NothingInvalid =>
                        /\ pc = "returned" /\ raised = ""
                        /\ Len(The(The(result)[block])) = RecordCount(block)
                        /\ \A i \in 1 .. RecordCount(block) :
                             The(The(result)[block])[i][f.name]
                               = IF i <= short
                                 THEN Some(parse_args.raw_data[block]
                                             [FieldKey(f)].items[i])
                                 ELSE None

\* a daily block of three days with two precipitation sums parsed: the third
\* record has no precipitation sum
C28_Witness ==
    /\ pc = "returned"
    /\ ShortArray("daily", FieldNamed(DailyForecast, "precipitation_sum"))
    /\ RecordCount("daily") = 3
    /\ Len(parse_args.raw_data["daily"]["precipitation_sum"].items) = 2
    /\ The(The(result).daily)[3].precipitation_sum = None
    /\ The(The(result).daily)[2].precipitation_sum # None

----------------------------------------------------------------------------
\* Properties of the storages and of the `clear` command (SpecStorage)

\* the storage holds nothing, as the process that just ran sees it
NoDefault == GetDefault(config_file, config_empty) = None
NoCachedLocation ==
    \A name \in Names :
        CacheGetLocation(cache_file, cache_empty, name) = None

\* C23: every run of the `clear` command with neither flag leaves no config
\* file and no cache file; with only --cache it leaves no cache file and the
\* config file as it was; with only --config it leaves no config file and
\* the cache file, with every cached location, as it was.
C23_ClearRemovesSelection ==
    [][op'.name = "clear" =>
         /\ (~FlagSet(op'.arg.cache) /\ ~FlagSet(op'.arg.config)) =>
              /\ config_file' = None /\ NoDefault'
              /\ cache_file' = None /\ NoCachedLocation'
         /\ (FlagSet(op'.arg.cache) /\ ~FlagSet(op'.arg.config)) =>
              /\ cache_file' = None /\ NoCachedLocation'
              /\ config_file' = config_file
         /\ (FlagSet(op'.arg.config) /\ ~FlagSet(op'.arg.cache)) =>
              /\ config_file' = None /\ NoDefault'
              /\ cache_file' = cache_file]_vars

\* `clear --cache` ran with a default location stored: the cache file is
\* gone and the default is still there
C23_Witness ==
    /\ op = Op("clear", [config |-> None, cache |-> Some(TRUE)], None)
    /\ cache_file = None
    /\ config_file = Some([default |-> Some("Lima")])

\* C26: in one process, get_default_location() called right after clear()
\* on the config storage returns no default, and get_location(name) called
\* right after clear() on the location cache returns absent, whatever was
\* called before.
C26_ClearResetsStorage ==
    /\ [][(op.name = "config_clear" /\ op'.name = "get_default_location") =>
            op'.ret = None]_vars
    /\ [][(op.name = "cache_clear" /\ op'.name = "get_location") =>
            op'.ret = None]_vars

----------------------------------------------------------------------------
\* Properties of repeated get_location calls (SpecLookups)

\* the requests sent during the i-th call that returned
SentDuring(i) ==
    lookups[i].sent - (IF i = 1 THEN 0 ELSE lookups[i - 1].sent)

\* two names are equal ignoring letter case
SameIgnoringCase(a, b) ==
    \/ a = b
    \/ {a, b} = {"Moscow", "moscow"}

\* C21: when a get_location call returned through geocoding, every later
\* call with a name equal to its name ignoring letter case returns an equal
\* Location (display name and rounded coordinates) and sends no request.
C21_CacheKeyedByLowerName ==
    \A i \in 1 .. Len(lookups) : \A j \in 1 .. Len(lookups) :
        (/\ i < j
         /\ SentDuring(i) > 0
         /\ SameIgnoringCase(lookups[i].name, lookups[j].name)) =>
            /\ lookups[j].location = lookups[i].location
            /\ SentDuring(j) = 0

\* "Moscow" was geocoded (to the rounded coordinates of the candidate), then
\* "moscow" was answered from the cache
C21_Witness ==
    /\ Len(lookups) = 2
    /\ lookups[1] = Lookup("Moscow",
                           [display_name |-> "Moscow", latitude |-> 5575,
                            longitude |-> 3762], 1)
    /\ lookups[2].name = "moscow"
    /\ lookups[2].sent = 1
    /\ Len(requests) = 1

====
